---- MODULE Spec2Model ----
(***************************************************************************)
(* Model of the image generation backend (src/main.py): the generate and   *)
(* list handlers, the dimension resolver, the URL derivation and the       *)
(* record store the handlers talk to.                                      *)
(*                                                                         *)
(* Text (prompt, style, image_url) is a sequence of one-character strings, *)
(* so that strip, concatenation and percent-encoding are computed as the   *)
(* code computes them.  An Optional value is None (the empty tuple) or     *)
(* Some(x) (the one-element tuple <<x>>).  Size keywords are only compared *)
(* and tested for truthiness, so they are plain strings.                   *)
(*                                                                         *)
(* The created_at timestamp of a response is the wall clock at response    *)
(* time; it is not state and is left out of the response records.          *)
(***************************************************************************)
EXTENDS Integers, Sequences, FiniteSets, TLC

VARIABLES store, workers, started, generated

vars == <<store, workers, started, generated>>

\* ------------------------------------------------------------------ bounds

\* Requests accepted by the server in one behaviour.
MaxRequests == 4

\* The threads of the server's pool that run the (synchronous) handlers.
Workers == {"w1", "w2"}

\* ---------------------------------------------------------------- optional

None == <<>>

Some(x) == <<x>>

Min(a, b) == IF a <= b THEN a ELSE b

\* -------------------------------------------------------------------- text

Whitespace == {" ", "\t", "\n"}

RECURSIVE lstrip(_)
lstrip(s) ==
    IF s # <<>> /\ Head(s) \in Whitespace THEN lstrip(Tail(s)) ELSE s

RECURSIVE rstrip(_)
rstrip(s) ==
    IF s # <<>> /\ s[Len(s)] \in Whitespace
    THEN rstrip(SubSeq(s, 1, Len(s) - 1))
    ELSE s

\* str.strip(): leading and trailing whitespace removed, inner kept.
strip(s) == rstrip(lstrip(s))

\* The characters urllib.parse.quote never escapes, plus its default safe="/".
QuoteSafe ==
    { "a", "b", "c", "d", "e", "f", "g", "h", "i", "j", "k", "l", "m",
      "n", "o", "p", "q", "r", "s", "t", "u", "v", "w", "x", "y", "z",
      "0", "1", "2", "3", "4", "5", "6", "7", "8", "9",
      "_", ".", "-", "~", "/" }

\* %XX of the other characters that occur in requests.
PercentCode(c) ==
    CASE c = " "  -> <<"%", "2", "0">>
      [] c = "\t" -> <<"%", "0", "9">>
      [] c = "\n" -> <<"%", "0", "A">>
      [] c = "%"  -> <<"%", "2", "5">>
      [] c = ":"  -> <<"%", "3", "A">>
      [] c = "?"  -> <<"%", "3", "F">>

RECURSIVE quote(_)
quote(s) ==
    IF s = <<>> THEN <<>>
    ELSE (IF Head(s) \in QuoteSafe THEN <<Head(s)>> ELSE PercentCode(Head(s)))
         \o quote(Tail(s))

Digits == <<"0", "1", "2", "3", "4", "5", "6", "7", "8", "9">>

\* str(n) / f"{n}" of a non-negative integer.
RECURSIVE DecStr(_)
DecStr(n) ==
    IF n < 10 THEN <<Digits[n + 1]>>
    ELSE DecStr(n \div 10) \o <<Digits[(n % 10) + 1]>>

\* "https://picsum.photos/seed/"
UrlPrefix ==
    << "h", "t", "t", "p", "s", ":", "/", "/",
       "p", "i", "c", "s", "u", "m", ".", "p", "h", "o", "t", "o", "s", "/",
       "s", "e", "e", "d", "/" >>

\* ---------------------------------------------------------------- requests

\* Text literals used by the requests below.
T_empty == <<>>
T_ab_sp == <<"a", "b", " ">>
T_sun == <<"s", "u", "n">>
T_cat_sp == <<"c", "a", "t", " ">>
T_sp_cat == <<" ", "c", "a", "t">>
T_a_c == <<"a", " ", "c">>
T_x == <<"x">>
T_sp_x_sp == <<" ", "x", " ">>

\* Bodies of POST /api/generate (GenerateRequest: prompt is required, style
\* and size are optional and unconstrained strings).
GenerateRequests ==
    { [prompt |-> T_empty,  style |-> None,            size |-> None],
      [prompt |-> T_ab_sp,  style |-> Some(T_x),       size |-> Some("square")],
      [prompt |-> T_sun,    style |-> None,            size |-> None],
      [prompt |-> T_cat_sp, style |-> Some(T_x),       size |-> Some("portrait")],
      [prompt |-> T_sp_cat, style |-> Some(T_empty),   size |-> Some("landscape")],
      [prompt |-> T_a_c,    style |-> Some(T_sp_x_sp), size |-> Some("huge")] }

\* Query strings of GET /api/generations: no limit parameter, or a positive one.
DefaultLimit == 20

ListQueries == {None, Some(1), Some(2), Some(DefaultLimit + 2)}

\* Mutant: the limit parameter is not passed on to the query.
EffectiveLimit_Ignored(q) == DefaultLimit

\* `limit: int = 20`
EffectiveLimit(q) == IF q = None THEN DefaultLimit ELSE q[1]

\* ------------------------------------------------------ dimension resolver

\* Mutant: the landscape pair is written the wrong way round.
size_to_dims_Swapped(size) ==
    IF size = Some("portrait") THEN <<768, 1024>>
    ELSE IF size = Some("landscape") THEN <<640, 1024>>
    ELSE <<1024, 1024>>

size_to_dims(size) ==
    IF size = Some("portrait") THEN <<768, 1024>>
    ELSE IF size = Some("landscape") THEN <<1024, 640>>
    ELSE <<1024, 1024>>

\* ------------------------------------------------------ generation service

\* Python truthiness of an Optional[str]: None and "" are falsy.
TruthyText(o) == o # None /\ o[1] # <<>>

TruthySize(o) == o # None /\ o[1] # ""

\* Mutant: the length check is made on the untrimmed prompt.
PromptTooShort_Untrimmed(prompt) == prompt = <<>> \/ Len(prompt) < 3

\* `not req.prompt or len(req.prompt.strip()) < 3`
PromptTooShort(prompt) == prompt = <<>> \/ Len(strip(prompt)) < 3

\* seed = quote((req.prompt + ("-" + req.style if req.style else "")).strip())
Seed(r) ==
    quote(strip(r.prompt \o (IF TruthyText(r.style) THEN <<"-">> \o r.style[1] ELSE <<>>)))

\* f"https://picsum.photos/seed/{seed}/{width}/{height}"
ImageUrl(seed, width, height) ==
    UrlPrefix \o seed \o <<"/">> \o DecStr(width) \o <<"/">> \o DecStr(height)

\* Mutant: height and width change places in the URL.
BuildDoc_UrlSwapped(r) ==
    LET dims == size_to_dims(r.size)
    IN  [ prompt    |-> strip(r.prompt),
          style     |-> IF TruthyText(r.style) THEN Some(strip(r.style[1])) ELSE None,
          size      |-> IF TruthySize(r.size) THEN r.size[1] ELSE "square",
          image_url |-> ImageUrl(Seed(r), dims[2], dims[1]),
          width     |-> dims[1],
          height    |-> dims[2] ]

\* The document generate_image hands to create_document.
BuildDoc(r) ==
    LET dims == size_to_dims(r.size)
    IN  [ prompt    |-> strip(r.prompt),
          style     |-> IF TruthyText(r.style) THEN Some(strip(r.style[1])) ELSE None,
          size      |-> IF TruthySize(r.size) THEN r.size[1] ELSE "square",
          image_url |-> ImageUrl(Seed(r), dims[1], dims[2]),
          width     |-> dims[1],
          height    |-> dims[2] ]

\* GenerationResponse(id=inserted_id, prompt=doc["prompt"], ...)
GenerateResponse(inserted_id, doc) ==
    [ id        |-> inserted_id,
      prompt    |-> doc.prompt,
      style     |-> doc.style,
      size      |-> doc.size,
      image_url |-> doc.image_url,
      width     |-> doc.width,
      height    |-> doc.height ]

\* --------------------------------------------------------- listing service

\* Mutant: the style of a stored document is not mapped.
ToResponse_StyleDropped(d) ==
    [ id        |-> DecStr(d._id),
      prompt    |-> d.prompt,
      style     |-> None,
      size      |-> d.size,
      image_url |-> d.image_url,
      width     |-> d.width,
      height    |-> d.height ]

\* GenerationResponse(id=str(d.get("_id")), prompt=d.get("prompt"), ...)
ToResponse(d) ==
    [ id        |-> DecStr(d._id),
      prompt    |-> d.prompt,
      style     |-> d.style,
      size      |-> d.size,
      image_url |-> d.image_url,
      width     |-> d.width,
      height    |-> d.height ]

\* The loop of list_generations: one response per returned document, in order.
ListResults(docs) == [i \in 1..Len(docs) |-> ToResponse(docs[i])]

\* ------------------------------------------------------------ record store

\* create_document: the store assigns the next identifier and keeps the
\* document; the identifier is returned as text.
StoredDoc(doc, n) ==
    [ _id       |-> n,
      prompt    |-> doc.prompt,
      style     |-> doc.style,
      size      |-> doc.size,
      image_url |-> doc.image_url,
      width     |-> doc.width,
      height    |-> doc.height ]

create_document(s, doc) == Append(s, StoredDoc(doc, Len(s) + 1))

InsertedId(s) == DecStr(Len(s))

\* get_documents with an empty filter: the collection, capped to limit.
get_documents(s, limit) == SubSeq(s, 1, Min(limit, Len(s)))

\* ----------------------------------------------------------------- handlers

\* A pool thread between requests.
Idle ==
    [ pc     |-> "idle",    \* idle, create, query, done
      kind   |-> "none",    \* none, generate, list
      req    |-> None,      \* Some(body of the generate request)
      query  |-> None,      \* the list request's limit parameter
      doc    |-> None,      \* Some(document built by generate_image)
      docs   |-> <<>>,      \* documents returned to list_generations
      calls  |-> 0,         \* adapter calls made for this request
      raised |-> FALSE,     \* the adapter call raised
      status |-> 0,         \* HTTP status of the response
      body   |-> <<>> ]     \* generate: Some(response); list: the responses

\* generate_image up to the adapter call: 400 on a short prompt, else the
\* document is built and the handler is about to call create_document.
GenerateEntered(r) ==
    IF PromptTooShort(r.prompt)
    THEN [Idle EXCEPT !.pc = "done", !.kind = "generate", !.req = Some(r),
                      !.status = 400]
    ELSE [Idle EXCEPT !.pc = "create", !.kind = "generate", !.req = Some(r),
                      !.doc = Some(BuildDoc(r))]

\* create_document returned inserted_id: the 200 response is built from doc.
CreateReturned(w, inserted_id) ==
    [w EXCEPT !.pc = "done", !.calls = @ + 1, !.status = 200,
              !.body = Some(GenerateResponse(inserted_id, w.doc[1]))]

\* Mutant: a failed create is tried again.
CreateRaised_Retried(w) ==
    [w EXCEPT !.calls = @ + 1, !.raised = TRUE]

\* Mutant: a failed create still answers 200, with a record that was not stored.
CreateRaised_Degraded(w) ==
    [w EXCEPT !.pc = "done", !.calls = @ + 1, !.raised = TRUE, !.status = 200,
              !.body = Some(GenerateResponse(<<>>, w.doc[1]))]

\* create_document raised: HTTPException(500), no retry, no response record.
CreateRaised(w) ==
    [w EXCEPT !.pc = "done", !.calls = @ + 1, !.raised = TRUE, !.status = 500]

\* list_generations up to the adapter call.
ListEntered(q) ==
    [Idle EXCEPT !.pc = "query", !.kind = "list", !.query = q]

\* get_documents returned docs: every document is mapped, 200.
QueryReturned(w, docs) ==
    [w EXCEPT !.pc = "done", !.calls = @ + 1, !.docs = docs, !.status = 200,
              !.body = ListResults(docs)]

\* Mutant: a failed query answers 200 with an empty page.
QueryRaised_Swallowed(w) ==
    [w EXCEPT !.pc = "done", !.calls = @ + 1, !.raised = TRUE, !.status = 200]

\* get_documents raised: HTTPException(500), nothing is returned.
QueryRaised(w) ==
    [w EXCEPT !.pc = "done", !.calls = @ + 1, !.raised = TRUE, !.status = 500]

\* The generate responses a worker state delivers.
Delivered(w) ==
    IF w.kind = "generate" /\ w.status = 200 THEN {w.body[1]} ELSE {}

\* ------------------------------------------------------------ state machine

\* A database holding more records than the default page, left by earlier
\* runs of the service.
PreloadedRequest == [prompt |-> T_sun, style |-> None, size |-> None]

PreloadedStore ==
    [i \in 1..(DefaultLimit + 1) |-> StoredDoc(BuildDoc(PreloadedRequest), i)]

Init ==
    /\ store = <<>>
    /\ workers = [w \in Workers |-> Idle]
    /\ started = 0
    /\ generated = {}

InitPreloaded ==
    /\ store = PreloadedStore
    /\ workers = [w \in Workers |-> Idle]
    /\ started = 0
    /\ generated = {}

\* POST /api/generate arrives at an idle thread (lines 88-105).
GenerateCall(w, r) ==
    /\ workers[w].pc = "idle"
    /\ started < MaxRequests
    /\ workers' = [workers EXCEPT ![w] = GenerateEntered(r)]
    /\ started' = started + 1
    /\ UNCHANGED <<store, generated>>

\* The one round trip to the store succeeds (lines 107-122).
GenerateCreateOk(w) ==
    /\ workers[w].pc = "create"
    /\ store' = create_document(store, workers[w].doc[1])
    /\ workers' = [workers EXCEPT ![w] = CreateReturned(@, InsertedId(store'))]
    /\ generated' = generated \cup Delivered(workers'[w])
    /\ UNCHANGED started

\* The round trip fails (lines 109-111).
GenerateCreateRaise(w) ==
    /\ workers[w].pc = "create"
    /\ workers' = [workers EXCEPT ![w] = CreateRaised(@)]
    /\ generated' = generated \cup Delivered(workers'[w])
    /\ UNCHANGED <<store, started>>

\* GET /api/generations arrives at an idle thread (line 125).
ListCall(w, q) ==
    /\ workers[w].pc = "idle"
    /\ started < MaxRequests
    /\ workers' = [workers EXCEPT ![w] = ListEntered(q)]
    /\ started' = started + 1
    /\ UNCHANGED <<store, generated>>

\* The query succeeds and the page is mapped (lines 127, 131-143).
ListQueryOk(w) ==
    /\ workers[w].pc = "query"
    /\ workers' = [workers EXCEPT ![w] =
           QueryReturned(@, get_documents(store, EffectiveLimit(@.query)))]
    /\ UNCHANGED <<store, started, generated>>

\* The query fails (lines 128-129).
ListQueryRaise(w) ==
    /\ workers[w].pc = "query"
    /\ workers' = [workers EXCEPT ![w] = QueryRaised(@)]
    /\ UNCHANGED <<store, started, generated>>

\* The response is sent and the thread goes back to the pool.
Return(w) ==
    /\ workers[w].pc = "done"
    /\ workers' = [workers EXCEPT ![w] = Idle]
    /\ UNCHANGED <<store, started, generated>>

Next ==
    \/ \E w \in Workers, r \in GenerateRequests : GenerateCall(w, r)
    \/ \E w \in Workers : GenerateCreateOk(w)
    \/ \E w \in Workers : GenerateCreateRaise(w)
    \/ \E w \in Workers, q \in ListQueries : ListCall(w, q)
    \/ \E w \in Workers : ListQueryOk(w)
    \/ \E w \in Workers : ListQueryRaise(w)
    \/ \E w \in Workers : Return(w)

Spec == Init /\ [][Next]_vars

SpecPreloaded == InitPreloaded /\ [][Next]_vars

\* ------------------------------------------------------------------ claims

IsSuffix(t, s) == Len(t) <= Len(s) /\ SubSeq(s, Len(s) - Len(t) + 1, Len(s)) = t

IsPrefix(t, s) == Len(t) <= Len(s) /\ SubSeq(s, 1, Len(t)) = t

\* The response b shows the stored document d.
Shows(b, d) ==
    /\ b.id = DecStr(d._id)
    /\ b.prompt = d.prompt
    /\ b.style = d.style
    /\ b.size = d.size
    /\ b.image_url = d.image_url
    /\ b.width = d.width
    /\ b.height = d.height

\* The responses b and g agree on every field a record is compared by.
SameRecord(b, g) ==
    /\ b.id = g.id
    /\ b.prompt = g.prompt
    /\ b.style = g.style
    /\ b.size = g.size
    /\ b.image_url = g.image_url
    /\ b.width = g.width
    /\ b.height = g.height

\* C1: a generate request whose trimmed prompt has fewer than 3 characters
\* ends with status 400 without building a document or calling the store,
\* and no stored record ever carries such a prompt.
C1_ShortPromptRejected ==
    /\ \A w \in Workers :
          LET s == workers[w]
          IN  (s.kind = "generate" /\ Len(strip(s.req[1].prompt)) < 3)
                 => /\ s.pc = "done"
                    /\ s.status = 400
                    /\ s.calls = 0
                    /\ s.doc = None
                    /\ s.body = <<>>
    /\ \A i \in DOMAIN store : Len(strip(store[i].prompt)) >= 3

\* A prompt of three characters that trims to two was rejected.
C1_Witness ==
    \E w \in Workers :
        /\ workers[w].kind = "generate"
        /\ workers[w].status = 400
        /\ Len(workers[w].req[1].prompt) >= 3
        /\ Len(strip(workers[w].req[1].prompt)) < 3

C3_SeedFromTrimmedPrompt ==
    \A w \in Workers :
        LET s == workers[w]
        IN  (s.kind = "generate" /\ s.doc # None)
               => LET r == s.req[1]
                      d == s.doc[1]
                      tail == IF r.style # None THEN <<"-">> \o r.style[1] ELSE <<>>
                  IN  d.image_url =
                          UrlPrefix \o quote(strip(strip(r.prompt) \o tail))
                          \o <<"/">> \o DecStr(d.width) \o <<"/">> \o DecStr(d.height)

\* C4: when a list call with a limit of at least the number of stored records
\* succeeds, every record a generate call has returned so far is in its page,
\* with the same id, prompt, style, size, image_url, width and height.
C4_RoundTrip ==
    [][ \A w \in Workers :
          ( /\ workers[w].pc = "query"
            /\ workers'[w].pc = "done"
            /\ workers'[w].status = 200
            /\ (IF workers[w].query = None THEN 20 ELSE workers[w].query[1])
                  >= Len(store) )
          => \A g \in generated :
                \E i \in DOMAIN workers'[w].body :
                    SameRecord(workers'[w].body[i], g) ]_vars

\* A list response shows a record with a style that generate returned earlier.
C4_Witness ==
    \E w \in Workers :
        /\ workers[w].kind = "list"
        /\ workers[w].status = 200
        /\ \E g \in generated :
              /\ g.style # None
              /\ \E i \in DOMAIN workers[w].body : SameRecord(workers[w].body[i], g)

\* C5: the dimensions resolved for a request are (768, 1024) for "portrait",
\* (1024, 640) for "landscape" and (1024, 1024) for every other size, absent
\* and unrecognized ones included; resolving never fails.
C5_ResolveTotal ==
    \A w \in Workers :
        LET s == workers[w]
        IN  (s.kind = "generate" /\ s.doc # None)
               => LET size == s.req[1].size
                      dims == <<s.doc[1].width, s.doc[1].height>>
                  IN  /\ size = Some("portrait") => dims = <<768, 1024>>
                      /\ size = Some("landscape") => dims = <<1024, 640>>
                      /\ size \notin {Some("portrait"), Some("landscape")}
                            => dims = <<1024, 1024>>

\* An unrecognized size keyword was resolved to the square pair, and a
\* landscape one to its own pair.
C5_Witness ==
    /\ \E w \in Workers :
          /\ workers[w].doc # None
          /\ workers[w].req[1].size = Some("huge")
          /\ workers[w].doc[1].width = 1024
          /\ workers[w].doc[1].height = 1024
    /\ \E w \in Workers :
          /\ workers[w].doc # None
          /\ workers[w].req[1].size = Some("landscape")
          /\ workers[w].doc[1].height = 640

\* C6 (as claimed): every persisted record's size is one of "square",
\* "portrait", "landscape", and an absent request size is persisted as "square".
C6_SizeIsKeyword ==
    /\ \A i \in DOMAIN store : store[i].size \in {"square", "portrait", "landscape"}
    /\ \A w \in Workers :
          (workers[w].doc # None /\ workers[w].req[1].size = None)
             => workers[w].doc[1].size = "square"

\* C7: a successful list call returns exactly min(limit, n) distinct records
\* of the n stored ones, whatever they are; without a limit the cap is 20.
C7_ListCapped ==
    [][ \A w \in Workers :
          ( /\ workers[w].pc = "query"
            /\ workers'[w].pc = "done"
            /\ workers'[w].status = 200 )
          => LET q == workers[w].query
                 cap == IF q = None THEN 20 ELSE q[1]
                 b == workers'[w].body
             IN  /\ Len(b) = Min(cap, Len(store))
                 /\ \A i \in DOMAIN b : \E j \in DOMAIN store : Shows(b[i], store[j])
                 /\ \A i, k \in DOMAIN b : i # k => b[i].id # b[k].id ]_vars

\* A list call without a limit returned 20 of more than 20 stored records,
\* and one with limit 2 returned 2.
C7_Witness ==
    /\ Len(store) > 20
    /\ \E w \in Workers :
          /\ workers[w].kind = "list"
          /\ workers[w].status = 200
          /\ workers[w].query = None
          /\ Len(workers[w].body) = 20
    /\ \E w \in Workers :
          /\ workers[w].kind = "list"
          /\ workers[w].status = 200
          /\ workers[w].query = Some(2)
          /\ Len(workers[w].body) = 2

C9_ListAllOrNothing ==
    \A w \in Workers :
        LET s == workers[w]
        IN  (s.kind = "list" /\ s.pc = "done")
               => \/ /\ s.raised
                     /\ s.status = 500
                     /\ s.body = <<>>
                  \/ /\ ~s.raised
                     /\ s.status = 200
                     /\ Len(s.body) = Len(s.docs)
                     /\ \A i \in DOMAIN s.docs : Shows(s.body[i], s.docs[i])

\* A list call failed on a non-empty store, next to one that returned a page.
C9_Witness ==
    /\ Len(store) > 0
    /\ \E w \in Workers :
          /\ workers[w].kind = "list"
          /\ workers[w].raised
          /\ workers[w].status = 500
    /\ \E w \in Workers :
          /\ workers[w].kind = "list"
          /\ workers[w].status = 200
          /\ Len(workers[w].body) > 0

\* C10: every persisted record's (width, height) is the pair resolved from
\* its own persisted size, one of the three fixed pairs, and its image_url
\* ends with that width and that height, in this order.
C10_DimsFollowSize ==
    \A i \in DOMAIN store :
        LET d == store[i]
        IN  /\ <<d.width, d.height>> = size_to_dims(Some(d.size))
            /\ <<d.width, d.height>> \in {<<1024, 1024>>, <<768, 1024>>, <<1024, 640>>}
            /\ IsSuffix(<<"/">> \o DecStr(d.width) \o <<"/">> \o DecStr(d.height),
                        d.image_url)

\* A portrait record, a landscape record and one of unrecognized size are stored.
C10_Witness ==
    /\ \E i \in DOMAIN store : store[i].size = "portrait" /\ store[i].width = 768
    /\ \E i \in DOMAIN store : store[i].size = "landscape" /\ store[i].height = 640
    /\ \E i \in DOMAIN store : store[i].size = "huge" /\ store[i].width = 1024

====
